---- MODULE Spec2Model ----
(***************************************************************************)
(* Model of the inflammation statistics core: the daily reductions, the    *)
(* per-patient normalisation and the mean-then-standard-deviation          *)
(* analysis (src/inflammation/models.py, src/inflammation/compute_data.py).*)
(*                                                                         *)
(* Array elements are IEEE-style values: a rational number n/d in lowest   *)
(* terms, NaN, or a signed infinity.  Rational arithmetic is exact, which  *)
(* agrees with binary floating point on the facts used here (m/m = 1,      *)
(* x/1 = x, x/m <= 1 when 0 <= x <= m).  An ndarray is its shape and its    *)
(* elements in row-major order, as numpy stores it.                        *)
(***************************************************************************)
EXTENDS Integers, Sequences, FiniteSets, TLC

VARIABLES heap, origin, last, ncalls, source, analysis

vars == <<heap, origin, last, ncalls, source, analysis>>

---------------------------------------------------------------------------
(* Bounds of the model.                                                    *)

MaxCells == 4
MaxListCells == 2
MaxSeqCells == 2
MaxCalls == 2
MaxFiles == 2
MaxFileCells == 2

---------------------------------------------------------------------------
(* Element values and their arithmetic.                                    *)

Abs(n) == IF n < 0 THEN -n ELSE n

RECURSIVE GCD(_, _)
GCD(a, b) == IF b = 0 THEN a ELSE GCD(b, a % b)

Num(n, d) ==
    LET s == IF d < 0 THEN -1 ELSE 1
        g == GCD(Abs(n), Abs(d))
    IN  [k |-> "num", n |-> (s * n) \div g, d |-> (s * d) \div g]

Int2V(n) == [k |-> "num", n |-> n, d |-> 1]
NaN == [k |-> "nan", n |-> 0, d |-> 1]
Inf == [k |-> "inf", n |-> 1, d |-> 1]
NegInf == [k |-> "inf", n |-> -1, d |-> 1]
Zero == Int2V(0)
One == Int2V(1)

IsNaN(x) == x.k = "nan"
IsInf(x) == x.k = "inf"
IsNum(x) == x.k = "num"
Sign(x) == IF IsNaN(x) THEN 0 ELSE IF x.n < 0 THEN -1 ELSE IF x.n > 0 THEN 1 ELSE 0

\* x < y as IEEE compares: false as soon as one side is NaN
Less(x, y) ==
    IF IsNaN(x) \/ IsNaN(y) THEN FALSE
    ELSE IF IsInf(x) THEN x.n < 0 /\ ~(IsInf(y) /\ y.n < 0)
    ELSE IF IsInf(y) THEN y.n > 0
    ELSE x.n * y.d < y.n * x.d

\* x == y as IEEE compares: NaN equals nothing
Eq(x, y) == ~IsNaN(x) /\ ~IsNaN(y) /\ x = y

LessEq(x, y) == Less(x, y) \/ Eq(x, y)

Add(x, y) ==
    IF IsNaN(x) \/ IsNaN(y) THEN NaN
    ELSE IF IsInf(x) /\ IsInf(y) THEN (IF x.n = y.n THEN x ELSE NaN)
    ELSE IF IsInf(x) THEN x
    ELSE IF IsInf(y) THEN y
    ELSE Num(x.n * y.d + y.n * x.d, x.d * y.d)

Neg(x) == IF IsNaN(x) THEN NaN ELSE [x EXCEPT !.n = -x.n]

Sub(x, y) == Add(x, Neg(y))

Mul(x, y) ==
    IF IsNaN(x) \/ IsNaN(y) THEN NaN
    ELSE IF IsInf(x) \/ IsInf(y)
         THEN (IF Sign(x) * Sign(y) = 0 THEN NaN
               ELSE IF Sign(x) * Sign(y) > 0 THEN Inf ELSE NegInf)
    ELSE Num(x.n * y.n, x.d * y.d)

\* true division under errstate(invalid="ignore", divide="ignore"):
\* 0/0 and inf/inf give NaN, x/0 gives a signed infinity, x/inf gives 0
Div(x, y) ==
    IF IsNaN(x) \/ IsNaN(y) THEN NaN
    ELSE IF IsInf(x) /\ IsInf(y) THEN NaN
    ELSE IF IsInf(x) THEN (IF Sign(x) * (IF Sign(y) < 0 THEN -1 ELSE 1) > 0 THEN Inf ELSE NegInf)
    ELSE IF IsInf(y) THEN Zero
    ELSE IF y.n = 0
         THEN (IF x.n = 0 THEN NaN ELSE IF x.n > 0 THEN Inf ELSE NegInf)
    ELSE Num(x.n * y.d, x.d * y.n)

\* np.fmax: the larger operand, a NaN operand is ignored
FMax(x, y) == IF IsNaN(x) THEN y ELSE IF IsNaN(y) THEN x ELSE IF Less(x, y) THEN y ELSE x

\* np.maximum / np.minimum: a NaN operand propagates
Maximum(x, y) == IF IsNaN(x) \/ IsNaN(y) THEN NaN ELSE IF Less(x, y) THEN y ELSE x
Minimum(x, y) == IF IsNaN(x) \/ IsNaN(y) THEN NaN ELSE IF Less(y, x) THEN y ELSE x

RECURSIVE ISqrt(_, _)
ISqrt(n, r) == IF (r + 1) * (r + 1) > n THEN r ELSE ISqrt(n, r + 1)

IsSquare(n) == ISqrt(n, 0) * ISqrt(n, 0) = n

\* np.sqrt: exact on a rational square, otherwise kept as the root of n/d
Sqrt(x) ==
    IF IsNaN(x) THEN NaN
    ELSE IF IsInf(x) THEN (IF x.n > 0 THEN Inf ELSE NaN)
    ELSE IF x.n < 0 THEN NaN
    ELSE IF IsSquare(x.n) /\ IsSquare(x.d) THEN Num(ISqrt(x.n, 0), ISqrt(x.d, 0))
    ELSE [k |-> "sqrt", n |-> x.n, d |-> x.d]

---------------------------------------------------------------------------
(* Objects: an ndarray (or a nested list with the same contents) is its    *)
(* shape and its elements in row-major order; a str or an int has no shape.*)

RECURSIVE Prod(_)
Prod(s) == IF s = <<>> THEN 1 ELSE Head(s) * Prod(Tail(s))

NDim(a) == Len(a.shape)
Size(a) == Prod(a.shape)

Array(t, s, f) == [type |-> t, shape |-> s, flat |-> f]
NdArray(s, f) == Array("ndarray", s, f)

\* element [i, j] of a 2-dimensional array (1-based)
At(a, i, j) == a.flat[(i - 1) * a.shape[2] + j]
Row(a, i) == [j \in 1..a.shape[2] |-> At(a, i, j)]

\* the slice a[:, k] along the first axis, k indexing the remaining axes flattened
Stride(a) == Prod(Tail(a.shape))
Lane(a, k) == [i \in 1..a.shape[1] |-> a.flat[(i - 1) * Stride(a) + k]]

RECURSIVE SeqSum(_)
SeqSum(s) == IF s = <<>> THEN Zero ELSE Add(Head(s), SeqSum(Tail(s)))

RECURSIVE SeqMaximum(_)
SeqMaximum(s) == IF Len(s) = 1 THEN s[1] ELSE Maximum(s[1], SeqMaximum(Tail(s)))

RECURSIVE SeqMinimum(_)
SeqMinimum(s) == IF Len(s) = 1 THEN s[1] ELSE Minimum(s[1], SeqMinimum(Tail(s)))

RECURSIVE SeqFMax(_)
SeqFMax(s) == IF Len(s) = 1 THEN s[1] ELSE FMax(s[1], SeqFMax(Tail(s)))

\* the outcome of a call: the heap it leaves, the exception it raised (or
\* "none") and the heap index of the array it returned (or 0)
Raise(h, e, m) == [heap |-> h, exc |-> e, msg |-> m, ret |-> 0]
Return(h, id) == [heap |-> h, exc |-> "none", msg |-> "", ret |-> id]

\* a freshly created array takes the next heap index
Alloc(h) == Len(h) + 1
Store(h, id, obj) == IF id = Len(h) + 1 THEN Append(h, obj) ELSE [h EXCEPT ![id] = obj]

---------------------------------------------------------------------------
(* Daily statistics: reductions along axis 0.                              *)

MeanAxis0(a) ==
    NdArray(Tail(a.shape),
            [k \in 1..Stride(a) |-> Div(SeqSum(Lane(a, k)), Int2V(a.shape[1]))])

\* daily_max reducing with np.min
MaxAxis0_WithMin(a) == NdArray(Tail(a.shape), [k \in 1..Stride(a) |-> SeqMinimum(Lane(a, k))])

MaxAxis0(a) == NdArray(Tail(a.shape), [k \in 1..Stride(a) |-> SeqMaximum(Lane(a, k))])

MinAxis0(a) == NdArray(Tail(a.shape), [k \in 1..Stride(a) |-> SeqMinimum(Lane(a, k))])

AxisErrorMsg == "axis 0 is out of bounds for array of dimension 0"
ZeroSizeMaxMsg == "zero-size array to reduction operation maximum which has no identity"
ZeroSizeMinMsg == "zero-size array to reduction operation minimum which has no identity"
ZeroSizeFMaxMsg == "zero-size array to reduction operation fmax which has no identity"

daily_mean(h, id) ==
    LET data == h[id]
    IN  IF NDim(data) = 0 THEN Raise(h, "AxisError", AxisErrorMsg)
        ELSE Return(Store(h, Alloc(h), MeanAxis0(data)), Alloc(h))

daily_max(h, id) ==
    LET data == h[id]
    IN  IF NDim(data) = 0 THEN Raise(h, "AxisError", AxisErrorMsg)
        ELSE IF data.shape[1] = 0 THEN Raise(h, "ValueError", ZeroSizeMaxMsg)
        ELSE Return(Store(h, Alloc(h), MaxAxis0(data)), Alloc(h))

daily_min(h, id) ==
    LET data == h[id]
    IN  IF NDim(data) = 0 THEN Raise(h, "AxisError", AxisErrorMsg)
        ELSE IF data.shape[1] = 0 THEN Raise(h, "ValueError", ZeroSizeMinMsg)
        ELSE Return(Store(h, Alloc(h), MinAxis0(data)), Alloc(h))

---------------------------------------------------------------------------
(* Patient normalisation.                                                  *)

\* the type check accepting a nested list as well
IsNdarray_OrList(data) == data.type \in {"ndarray", "list"}

IsNdarray(data) == data.type = "ndarray"

WrongNDim(data) == Len(data.shape) # 2

\* negative values let through (to be rounded to 0) instead of rejected
AnyNegative_Ignored(data) == FALSE

\* np.any(data < 0)
AnyNegative(data) == \E i \in 1..Len(data.flat) : Less(data.flat[i], Zero)

\* np.max in place of np.nanmax: a NaN entry makes the row maximum NaN
NanMaxAxis1_WithMax(data) == [i \in 1..data.shape[1] |-> SeqMaximum(Row(data, i))]

\* np.nanmax(data, axis=1): the maximum of each row with NaN entries ignored,
\* NaN for a row of NaNs only
NanMaxAxis1(data) == [i \in 1..data.shape[1] |-> SeqFMax(Row(data, i))]

\* data / max_data[:, np.newaxis]: each row divided by its own maximum
TrueDivide(data, max_data) ==
    NdArray(data.shape,
            [p \in 1..Size(data) |->
                Div(data.flat[p], max_data[((p - 1) \div data.shape[2]) + 1])])

\* data /= ... : the division written into its left operand
DivideTarget_InPlace(h, id) == id

\* the operator / creates its result
DivideTarget(h, id) == Alloc(h)

\* the NaN replacement left out
ReplaceNaN_Skipped(a) == a

\* normalised[np.isnan(normalised)] = 0
ReplaceNaN(a) == [a EXCEPT !.flat = [p \in DOMAIN a.flat |-> IF IsNaN(a.flat[p]) THEN Zero ELSE a.flat[p]]]

\* the sign check made before the dimension check
patient_normalise_SignFirst(h, id) ==
    LET data == h[id]
    IN  IF ~IsNdarray(data)
        THEN Raise(h, "TypeError", "Input data should be an ndarray")
        ELSE IF AnyNegative(data)
        THEN Raise(h, "ValueError", "Inflammation values should not be negative")
        ELSE IF WrongNDim(data)
        THEN Raise(h, "ValueError", "Inflammation array should be 2-dimensional")
        ELSE Raise(h, "ValueError", ZeroSizeFMaxMsg)

patient_normalise(h, id) ==
    LET data == h[id]
    IN  IF ~IsNdarray(data)
        THEN Raise(h, "TypeError", "Input data should be an ndarray")
        ELSE IF WrongNDim(data)
        THEN Raise(h, "ValueError", "Inflammation array should be 2-dimensional")
        ELSE IF AnyNegative(data)
        THEN Raise(h, "ValueError", "Inflammation values should not be negative")
        \* np.nanmax reduces with fmax, which has no identity for an empty row
        ELSE IF data.shape[2] = 0
        THEN Raise(h, "ValueError", ZeroSizeFMaxMsg)
        ELSE LET max_data == NanMaxAxis1(data)
                 normalised == DivideTarget(h, id)
                 h1 == Store(h, normalised, TrueDivide(data, max_data))
                 h2 == [h1 EXCEPT ![normalised] = ReplaceNaN(@)]
             IN  Return(h2, normalised)

---------------------------------------------------------------------------
(* Standard deviation by day between datasets.                             *)

\* map(daily_mean, data), consumed by list(): the means in order, stopping
\* at the first call that raises
RECURSIVE MapDailyMean(_, _)
MapDailyMean(h, ids) ==
    IF ids = <<>> THEN [heap |-> h, exc |-> "none", msg |-> "", rets |-> <<>>]
    ELSE LET r == daily_mean(h, Head(ids))
         IN  IF r.exc # "none"
             THEN [heap |-> r.heap, exc |-> r.exc, msg |-> r.msg, rets |-> <<>>]
             ELSE LET rest == MapDailyMean(r.heap, Tail(ids))
                  IN  [rest EXCEPT !.rets = IF rest.exc = "none" THEN <<r.ret>> \o @ ELSE <<>>]

RECURSIVE Concat(_)
Concat(ss) == IF ss = <<>> THEN <<>> ELSE Head(ss) \o Concat(Tail(ss))

\* np.stack: a new leading axis over arrays of one shape
Stack(arrs) ==
    NdArray(<<Len(arrs)>> \o arrs[1].shape, Concat([i \in 1..Len(arrs) |-> arrs[i].flat]))

\* np.std with ddof = 1: the sample standard deviation
StdOf_Sample(s) ==
    LET N == Len(s)
        arrmean == Div(SeqSum(s), Int2V(N))
        x == [i \in 1..N |-> Mul(Sub(s[i], arrmean), Sub(s[i], arrmean))]
    IN  Sqrt(Div(SeqSum(x), Int2V(N - 1)))

\* np.std of one lane with the default ddof = 0: the root of the mean squared
\* deviation from the mean
StdOf(s) ==
    LET N == Len(s)
        arrmean == Div(SeqSum(s), Int2V(N))
        x == [i \in 1..N |-> Mul(Sub(s[i], arrmean), Sub(s[i], arrmean))]
    IN  Sqrt(Div(SeqSum(x), Int2V(N)))

StdAxis0(a) == NdArray(Tail(a.shape), [k \in 1..Stride(a) |-> StdOf(Lane(a, k))])

compute_standard_deviation_by_day(h, ids) ==
    LET means_by_day == MapDailyMean(h, ids)
        h1 == means_by_day.heap
    IN  IF means_by_day.exc # "none"
        THEN Raise(h1, means_by_day.exc, means_by_day.msg)
        ELSE IF means_by_day.rets = <<>>
        THEN Raise(h1, "ValueError", "need at least one array to stack")
        ELSE IF \E i \in 1..Len(means_by_day.rets) :
                    h1[means_by_day.rets[i]].shape # h1[means_by_day.rets[1]].shape
        THEN Raise(h1, "ValueError", "all input arrays must have the same shape")
        ELSE LET means_by_day_matrix == Alloc(h1)
                 h2 == Store(h1, means_by_day_matrix,
                             Stack([i \in 1..Len(means_by_day.rets) |-> h1[means_by_day.rets[i]]]))
                 daily_standard_deviation == Alloc(h2)
                 h3 == Store(h2, daily_standard_deviation, StdAxis0(h2[means_by_day_matrix]))
             IN  Return(h3, daily_standard_deviation)

---------------------------------------------------------------------------
(* Data sources and the analysis pipeline.                                 *)

\* np.loadtxt with the default ndmin = 0 drops the axes of length 1
Squeeze(shape) == SelectSeq(shape, LAMBDA n : n # 1)

load_csv(table) == NdArray(Squeeze(table.shape), table.flat)

\* a list holding one array per record of the document
load_json(table) == Array("list", table.shape, table.flat)

\* load_inflammation_data of the data source: the exception raised (or
\* "none") and the datasets returned, one per matching file
load_inflammation_data(src) ==
    IF src.kind = "CSVDataSource"
    THEN IF Len(src.files) = 0
         THEN [exc |-> "ValueError", msg |-> "No inflammation data CSV files found in path " \o src.dir_path,
               data |-> <<>>]
         ELSE [exc |-> "none", msg |-> "",
               data |-> [i \in 1..Len(src.files) |-> load_csv(src.files[i])]]
    ELSE IF src.kind = "JSONDataSource"
    THEN IF Len(src.files) = 0
         THEN [exc |-> "ValueError", msg |-> "No inflammation JSON files found in path " \o src.dir_path,
               data |-> <<>>]
         ELSE [exc |-> "none", msg |-> "",
               data |-> [i \in 1..Len(src.files) |-> load_json(src.files[i])]]
    ELSE [exc |-> "none", msg |-> "", data |-> src.files]

\* analyse_data catching the error of the load and going on with no dataset
analyse_data_Swallowing(h, src) ==
    LET loaded == load_inflammation_data(src)
        h1 == h \o loaded.data
        data == [i \in 1..Len(loaded.data) |-> Len(h) + i]
    IN  [out |-> compute_standard_deviation_by_day(h1, data),
         data |-> data,
         calls |-> <<"load_inflammation_data", "compute_standard_deviation_by_day">>]

\* analyse_data: the outcome of the call and the calls it made, in order
analyse_data(h, src) ==
    LET loaded == load_inflammation_data(src)
    IN  IF loaded.exc # "none"
        THEN [out |-> Raise(h, loaded.exc, loaded.msg),
              data |-> <<>>,
              calls |-> <<"load_inflammation_data">>]
        ELSE LET h1 == h \o loaded.data
                 data == [i \in 1..Len(loaded.data) |-> Len(h) + i]
             IN  [out |-> compute_standard_deviation_by_day(h1, data),
                  data |-> data,
                  calls |-> <<"load_inflammation_data", "compute_standard_deviation_by_day">>]

---------------------------------------------------------------------------
(* Inputs.                                                                 *)

Values == {NaN, Zero, One, Int2V(2), Inf, Int2V(-1)}

ShapesOf(ndim, cells) == {s \in [1..ndim -> 0..cells] : Prod(s) <= cells}

ArraysOf(t, ndim, cells) ==
    UNION {{Array(t, s, f) : f \in [1..Prod(s) -> Values]} : s \in ShapesOf(ndim, cells)}

Table(rows) ==
    NdArray(<<Len(rows), Len(rows[1])>>,
            Concat([i \in 1..Len(rows) |-> [j \in 1..Len(rows[i]) |-> Int2V(rows[i][j])]]))

\* the inputs of test_daily_mean_zeros, test_daily_mean_integers and
\* test_patient_normalise
TestInputs ==
    { Table(<<<<0, 0>>, <<0, 0>>, <<0, 0>>>>),
      Table(<<<<1, 2>>, <<3, 4>>, <<5, 6>>>>),
      Table(<<<<0, 0, 0>>, <<0, 0, 0>>, <<0, 0, 0>>>>),
      Table(<<<<1, 1, 1>>, <<1, 1, 1>>, <<1, 1, 1>>>>),
      Table(<<<<1, 2, 3>>, <<4, 5, 6>>, <<7, 8, 9>>>>),
      Table(<<<<-1, 2, 3>>, <<4, 5, 6>>, <<7, 8, 9>>>>),
      NdArray(<<3>>, <<Int2V(4), Int2V(5), Int2V(6)>>),
      Array("str", <<>>, <<>>),
      Array("int", <<>>, <<Int2V(3)>>) }

Inputs ==
    ArraysOf("ndarray", 2, MaxCells)
    \cup UNION {ArraysOf("ndarray", n, MaxListCells) \cup ArraysOf("list", n, MaxListCells) :
                    n \in {0, 1, 3}}
    \cup ArraysOf("list", 2, MaxListCells)
    \cup {Array("int", <<>>, <<v>>) : v \in {Int2V(3), Int2V(-1)}}
    \cup TestInputs

FileValues == {One, Int2V(3)}

\* files of two patients over two days
SampleTables ==
    { Table(<<<<1, 2>>, <<3, 4>>>>), Table(<<<<0, 0>>, <<0, 0>>>>), Table(<<<<5, 1>>, <<2, 2>>>>) }

FileTables ==
    UNION {{NdArray(s, f) : f \in [1..Prod(s) -> FileValues]} :
            s \in {t \in ShapesOf(2, MaxFileCells) : Prod(t) > 0}}
    \cup SampleTables

DirPaths == {"data", "empty_dir"}

SeqsUpTo(S, n) == UNION {[1..m -> S] : m \in 0..n}

\* the return value given to the mock source of test_analyse_data_mock_source
MockData ==
    << Array("list", <<1, 3>>, <<Int2V(1), Int2V(2), Int2V(3)>>),
       Array("list", <<1, 3>>, <<Int2V(4), Int2V(5), Int2V(6)>>) >>

Sources ==
    {[kind |-> k, dir_path |-> d, files |-> fs] :
        k \in {"CSVDataSource", "JSONDataSource"}, d \in DirPaths,
        fs \in SeqsUpTo(FileTables, MaxFiles)}
    \cup {[kind |-> "Mock", dir_path |-> "", files |-> MockData]}

NoSource == [kind |-> "none", dir_path |-> "", files |-> <<>>]

---------------------------------------------------------------------------
(* The state machine: a caller holding arrays on a heap and calling the    *)
(* functions on them.                                                      *)

Given == [fn |-> "input", args |-> <<>>]
NoCall == [fn |-> "none", args |-> <<>>, exc |-> "none", msg |-> "", ret |-> 0]
Idle == [state |-> "idle", exc |-> "none", msg |-> "", ret |-> 0, data |-> <<>>, calls |-> <<>>]

Init ==
    /\ \E inp \in Inputs : heap = <<inp>>
    /\ origin = <<Given>>
    /\ last = NoCall
    /\ ncalls = 0
    /\ source = NoSource
    /\ analysis = Idle

\* the record of a call and of the arrays it created
Called(fn, args, r) ==
    /\ heap' = r.heap
    /\ origin' = [i \in 1..Len(r.heap) |-> IF i <= Len(origin) THEN origin[i]
                                             ELSE [fn |-> fn, args |-> args]]
    /\ last' = [fn |-> fn, args |-> args, exc |-> r.exc, msg |-> r.msg, ret |-> r.ret]
    /\ ncalls' = ncalls + 1
    /\ UNCHANGED <<source, analysis>>

\* the reductions are given numeric data
Numeric(obj) == obj.type # "str"

PatientNormaliseOn(ids) ==
    \E id \in ids : Called("patient_normalise", <<id>>, patient_normalise(heap, id))

DailyMeanOn(ids) ==
    \E id \in ids :
        /\ Numeric(heap[id])
        /\ Called("daily_mean", <<id>>, daily_mean(heap, id))

DailyMaxOn(ids) ==
    \E id \in ids :
        /\ Numeric(heap[id])
        /\ Called("daily_max", <<id>>, daily_max(heap, id))

DailyMinOn(ids) ==
    \E id \in ids :
        /\ Numeric(heap[id])
        /\ Called("daily_min", <<id>>, daily_min(heap, id))

ComputeStdOn(ids) ==
    \E data \in SeqsUpTo(ids, MaxFiles) :
        /\ \A i \in 1..Len(data) : Numeric(heap[data[i]])
        /\ Called("compute_standard_deviation_by_day", data,
                  compute_standard_deviation_by_day(heap, data))

\* one call of a function on the input
ApplyPatientNormalise == last = NoCall /\ PatientNormaliseOn({1})
ApplyDailyMean == last = NoCall /\ DailyMeanOn({1})
ApplyDailyMax == last = NoCall /\ DailyMaxOn({1})
ApplyDailyMin == last = NoCall /\ DailyMinOn({1})

Next ==
    \/ ApplyPatientNormalise
    \/ ApplyDailyMean
    \/ ApplyDailyMax
    \/ ApplyDailyMin

Spec == Init /\ [][Next]_vars

---------------------------------------------------------------------------
(* Sequences of calls, each on the input or on the result of the call      *)
(* before it.                                                              *)

SeqValues == {NaN, Zero, One, Int2V(2), Inf}

SeqInputs ==
    UNION {{NdArray(s, f) : f \in [1..Prod(s) -> SeqValues]} : s \in ShapesOf(2, MaxSeqCells)}
    \cup {NdArray(<<1>>, <<One>>), NdArray(<<1, 1>>, <<Int2V(-1)>>),
          Array("list", <<1, 1>>, <<One>>)}

InitSeq ==
    /\ \E inp \in SeqInputs : heap = <<inp>>
    /\ origin = <<Given>>
    /\ last = NoCall
    /\ ncalls = 0
    /\ source = NoSource
    /\ analysis = Idle

Held == {1} \cup ({last.ret} \ {0})

CallPatientNormalise == ncalls < MaxCalls /\ PatientNormaliseOn(Held)
CallDailyMean == ncalls < MaxCalls /\ DailyMeanOn(Held)
CallDailyMax == ncalls < MaxCalls /\ DailyMaxOn(Held)
CallDailyMin == ncalls < MaxCalls /\ DailyMinOn(Held)
CallComputeStd == ncalls < MaxCalls /\ ComputeStdOn(Held)

NextSeq ==
    \/ CallPatientNormalise
    \/ CallDailyMean
    \/ CallDailyMax
    \/ CallDailyMin
    \/ CallComputeStd

SpecSeq == InitSeq /\ [][NextSeq]_vars

---------------------------------------------------------------------------
(* The analysis of a data source.                                          *)

InitAnalyse ==
    /\ heap = <<>>
    /\ origin = <<>>
    /\ last = NoCall
    /\ ncalls = 0
    /\ source \in Sources
    /\ analysis = Idle

AnalyseData ==
    /\ analysis.state = "idle"
    /\ LET r == analyse_data(heap, source)
       IN  /\ heap' = r.out.heap
           /\ origin' = [i \in 1..Len(r.out.heap) |->
                            IF i <= Len(r.data) THEN Given
                            ELSE [fn |-> "analyse_data", args |-> r.data]]
           /\ analysis' = [state |-> IF r.out.exc = "none" THEN "returned" ELSE "raised",
                           exc |-> r.out.exc, msg |-> r.out.msg, ret |-> r.out.ret,
                           data |-> r.data, calls |-> r.calls]
    /\ UNCHANGED <<last, ncalls, source>>

NextAnalyse == AnalyseData

SpecAnalyse == InitAnalyse /\ [][NextAnalyse]_vars

---------------------------------------------------------------------------
(* Properties of patient_normalise.                                        *)

\* the argument and the result of the last call of a one-argument function
Arg == heap[last.args[1]]
Out == heap[last.ret]

Normalised == last.fn = "patient_normalise"
Returned == last.exc = "none" /\ last.ret \in 1..Len(heap)

IsNegative(x) == ~IsNaN(x) /\ x.n < 0
HasNegative(a) == \E p \in 1..Len(a.flat) : IsNegative(a.flat[p])

\* a 2-dimensional array with a row, a column and no negative value
ValidTable(a) ==
    /\ a.type = "ndarray"
    /\ Len(a.shape) = 2
    /\ a.shape[1] >= 1
    /\ a.shape[2] >= 1
    /\ ~HasNegative(a)

C2_WrongDimensionRaisesShapeError ==
    (Normalised /\ Arg.type = "ndarray" /\ Len(Arg.shape) # 2)
        => /\ last.exc = "ValueError"
           /\ last.msg = "Inflammation array should be 2-dimensional"
           /\ last.ret = 0
           /\ Len(heap) = 1

C2_Witness ==
    /\ Normalised
    /\ Arg.type = "ndarray"
    /\ Len(Arg.shape) = 3
    /\ HasNegative(Arg)
    /\ last.msg = "Inflammation array should be 2-dimensional"

\* C3: patient_normalise on an input that is not an array (a string, a bare
\* integer, a list) raises TypeError, before the dimension and the sign of the
\* contents are looked at.
C3_NonArrayRaisesTypeError ==
    (Normalised /\ Arg.type # "ndarray")
        => /\ last.exc = "TypeError"
           /\ last.msg = "Input data should be an ndarray"
           /\ last.ret = 0
           /\ Len(heap) = 1

C3_Witness ==
    /\ Normalised
    /\ Arg.type = "list"
    /\ Len(Arg.shape) = 1
    /\ HasNegative(Arg)
    /\ last.exc = "TypeError"

\* m is the maximum of row i of a over its entries that are not NaN
IsRowMax(a, i, m) ==
    /\ \E j \in 1..a.shape[2] : ~IsNaN(At(a, i, j)) /\ At(a, i, j) = m
    /\ \A j \in 1..a.shape[2] : IsNaN(At(a, i, j)) \/ LessEq(At(a, i, j), m)

RowMaxima(a, i) == {m \in {At(a, i, j) : j \in 1..a.shape[2]} : IsRowMax(a, i, m)}

\* row i of out is row i of a divided by m, NaN entries becoming 0, so that
\* its values lie in [0, 1] and its largest is 1
RowNormalisedBy(a, out, i, m) ==
    /\ \A j \in 1..a.shape[2] :
        /\ IsNaN(At(a, i, j)) => At(out, i, j) = Zero
        /\ ~IsNaN(At(a, i, j)) => At(out, i, j) = Div(At(a, i, j), m)
        /\ LessEq(Zero, At(out, i, j)) /\ LessEq(At(out, i, j), One)
    /\ \E j \in 1..a.shape[2] : At(out, i, j) = One

\* |x - e| <= atol + rtol * |e| with atol = rtol = 1/100, for e >= 0
Close(x, e) ==
    LET tol == Add(Num(1, 100), Mul(Num(1, 100), e))
    IN  LessEq(Sub(x, e), tol) /\ LessEq(Sub(e, x), tol)

Expected123 ==
    << Num(33, 100), Num(67, 100), One, Num(67, 100), Num(83, 100), One,
       Num(78, 100), Num(89, 100), One >>

NormalisedExample ==
    Arg = Table(<<<<1, 2, 3>>, <<4, 5, 6>>, <<7, 8, 9>>>>)
        => \A p \in 1..9 : Close(Out.flat[p], Expected123[p])

\* C4 as stated: on every valid table patient_normalise returns a table of the
\* same shape in which every row whose maximum m over its non-NaN entries is
\* greater than 0 is the row divided by m with NaN entries 0, values in [0, 1]
\* and largest value 1.
C4_EveryPositiveRowScaledToOne ==
    (Normalised /\ ValidTable(Arg))
        => /\ Returned
           /\ Out.shape = Arg.shape
           /\ \A i \in 1..Arg.shape[1] : \A m \in RowMaxima(Arg, i) :
                Less(Zero, m) => RowNormalisedBy(Arg, Out, i, m)
           /\ NormalisedExample

\* C4 amended: the same for every row whose maximum m over its non-NaN entries
\* is greater than 0 and finite.
C4_FiniteRowScaledToOne ==
    (Normalised /\ ValidTable(Arg))
        => /\ Returned
           /\ Out.shape = Arg.shape
           /\ \A i \in 1..Arg.shape[1] : \A m \in RowMaxima(Arg, i) :
                (Less(Zero, m) /\ ~IsInf(m)) => RowNormalisedBy(Arg, Out, i, m)
           /\ NormalisedExample

C4_Witness ==
    /\ Normalised
    /\ Returned
    /\ Arg.shape = <<2, 2>>
    /\ Row(Arg, 1) = <<One, Int2V(2)>>
    /\ Row(Arg, 2) = <<NaN, Int2V(2)>>
    /\ Out.flat = <<Num(1, 2), One, Zero, One>>

DegenerateRow(a, i) == \A j \in 1..a.shape[2] : At(a, i, j) = Zero \/ IsNaN(At(a, i, j))

\* C5: on every valid table, a row holding only 0 and NaN comes back as a row
\* of zeros, no exception is raised, and the result holds no NaN and no
\* infinite value.
C5_DegenerateRowsBecomeZeros ==
    (Normalised /\ ValidTable(Arg))
        => /\ Returned
           /\ \A i \in 1..Arg.shape[1] :
                DegenerateRow(Arg, i) => \A j \in 1..Arg.shape[2] : At(Out, i, j) = Zero
           /\ \A p \in 1..Len(Out.flat) : IsNum(Out.flat[p])

C5_Witness ==
    /\ Normalised
    /\ Returned
    /\ Arg.shape = <<2, 2>>
    /\ Row(Arg, 1) = <<Zero, NaN>>
    /\ Row(Arg, 2) = <<NaN, NaN>>
    /\ Out.flat = <<Zero, Zero, Zero, Zero>>

---------------------------------------------------------------------------
(* Properties of the daily statistics.                                     *)

Column(a, j) == [i \in 1..a.shape[1] |-> At(a, i, j)]
HasNaN(col) == \E i \in 1..Len(col) : IsNaN(col[i])

\* r is the arithmetic mean of col: r times the number of entries is their
\* sum (NaN as soon as one entry is NaN, as IEEE arithmetic has it)
IsMeanOf(r, col) ==
    IF HasNaN(col) THEN IsNaN(r) ELSE ~IsNaN(r) /\ Mul(r, Int2V(Len(col))) = SeqSum(col)

\* r is the largest entry of col
IsMaxOf(r, col) ==
    IF HasNaN(col) THEN IsNaN(r)
    ELSE (\E i \in 1..Len(col) : col[i] = r) /\ (\A i \in 1..Len(col) : LessEq(col[i], r))

\* r is the smallest entry of col
IsMinOf(r, col) ==
    IF HasNaN(col) THEN IsNaN(r)
    ELSE (\E i \in 1..Len(col) : col[i] = r) /\ (\A i \in 1..Len(col) : LessEq(r, col[i]))

IsStatOf(fn, r, col) ==
    IF fn = "daily_mean" THEN IsMeanOf(r, col)
    ELSE IF fn = "daily_max" THEN IsMaxOf(r, col)
    ELSE IsMinOf(r, col)

AllZero(a) == \A p \in 1..Len(a.flat) : a.flat[p] = Zero

\* C9: on a 2-dimensional table with at least one row, daily_mean, daily_max
\* and daily_min return a series with one entry per column, the mean, the
\* maximum and the minimum of that column over all rows; an all-zero table
\* gives all-zero series and [[1,2],[3,4],[5,6]] gives the daily mean [3,4].
C9_DailyStatisticsPerColumn ==
    (/\ last.fn \in {"daily_mean", "daily_max", "daily_min"}
     /\ Len(Arg.shape) = 2
     /\ Arg.shape[1] >= 1)
        => /\ Returned
           /\ Out.shape = <<Arg.shape[2]>>
           /\ Len(Out.flat) = Arg.shape[2]
           /\ \A j \in 1..Arg.shape[2] : IsStatOf(last.fn, Out.flat[j], Column(Arg, j))
           /\ AllZero(Arg) => AllZero(Out)
           /\ (last.fn = "daily_mean" /\ Arg = Table(<<<<1, 2>>, <<3, 4>>, <<5, 6>>>>))
                => Out.flat = <<Int2V(3), Int2V(4)>>

C9_Witness ==
    /\ last.fn = "daily_mean"
    /\ Arg = Table(<<<<1, 2>>, <<3, 4>>, <<5, 6>>>>)
    /\ Returned
    /\ Out = NdArray(<<2>>, <<Int2V(3), Int2V(4)>>)

---------------------------------------------------------------------------
(* Properties of sequences of calls.                                       *)

\* numpy's array equality: the same shape and every pair of elements equal
ArrayEqual(a, b) ==
    /\ a.shape = b.shape
    /\ \A p \in 1..Len(a.flat) : Eq(a.flat[p], b.flat[p])

\* the last call is patient_normalise applied to the table that
\* patient_normalise returned for the valid table t
Renormalised(t) ==
    /\ Normalised
    /\ origin[last.args[1]].fn = "patient_normalise"
    /\ origin[last.args[1]].args = <<t>>
    /\ ValidTable(heap[t])

\* C6: patient_normalise applied to its own output on a valid table returns
\* that output again, and raises no error.
C6_NormaliseTwiceIsNormaliseOnce ==
    \A t \in 1..Len(heap) : Renormalised(t) => (Returned /\ ArrayEqual(Out, Arg))

C6_Witness ==
    /\ Renormalised(1)
    /\ heap[1].flat = <<One, Int2V(2)>>
    /\ Arg.flat = <<Num(1, 2), One>>
    /\ Returned
    /\ Out.flat = <<Num(1, 2), One>>
    /\ last.ret # last.args[1]

\* C10: no call changes an array the caller holds, whether it returns or
\* raises; the NaN entries of a table given to patient_normalise remain NaN.
C10_InputsNeverMutated ==
    [][\A i \in 1..Len(heap) : i <= Len(heap') /\ heap'[i] = heap[i]]_vars

C10_Witness ==
    /\ Normalised
    /\ Returned
    /\ last.ret # last.args[1]
    /\ \E p \in 1..Len(Arg.flat) : IsNaN(Arg.flat[p]) /\ Out.flat[p] = Zero

---------------------------------------------------------------------------
(* Properties of analyse_data.                                             *)

Dataset(i) == heap[analysis.data[i]]
Result == heap[analysis.ret]

\* the datasets the source returned are tables of one width
TablesOfWidth(c) ==
    /\ Len(analysis.data) >= 1
    /\ \A i \in 1..Len(analysis.data) :
        /\ Len(Dataset(i).shape) = 2
        /\ Dataset(i).shape[1] >= 1
        /\ Dataset(i).shape[2] = c

\* the mean of day j in each dataset
DayMeans(j) ==
    [i \in 1..Len(analysis.data) |->
        Div(SeqSum(Column(Dataset(i), j)), Int2V(Dataset(i).shape[1]))]

Square(x) == IF x.k = "sqrt" THEN Num(x.n, x.d) ELSE Mul(x, x)

\* r is the population standard deviation of the N values m:
\* r >= 0 and N^2 r^2 = N sum(m^2) - (sum m)^2
IsPopulationStd(r, m) ==
    LET N == Int2V(Len(m))
        sq == [i \in 1..Len(m) |-> Mul(m[i], m[i])]
    IN  /\ r.n >= 0
        /\ Mul(Mul(N, N), Square(r)) = Sub(Mul(N, SeqSum(sq)), Mul(SeqSum(m), SeqSum(m)))

\* C7: analyse_data returns for each day the population standard deviation
\* (divisor N, the number of datasets) of the datasets' means of that day;
\* the datasets [[1,2,3]] and [[4,5,6]] give [1.5, 1.5, 1.5].
C7_PopulationStdOfDailyMeans ==
    \A c \in 0..9 :
        (analysis.state # "idle" /\ TablesOfWidth(c))
            => /\ analysis.state = "returned"
               /\ Result.shape = <<c>>
               /\ \A j \in 1..c : IsPopulationStd(Result.flat[j], DayMeans(j))
               /\ source.files = MockData
                    => Result.flat = <<Num(3, 2), Num(3, 2), Num(3, 2)>>

C7_Witness ==
    /\ analysis.state = "returned"
    /\ source.kind = "Mock"
    /\ source.files = MockData
    /\ TablesOfWidth(3)
    /\ Result = NdArray(<<3>>, <<Num(3, 2), Num(3, 2), Num(3, 2)>>)

NoFilesFound == source.kind \in {"CSVDataSource", "JSONDataSource"} /\ source.files = <<>>

\* C8: when load_inflammation_data raises its "no files found" error,
\* analyse_data raises that same error, having called the load once and
\* nothing else: no mean, no standard deviation, no result.
C8_NoFilesErrorPropagates ==
    (analysis.state # "idle" /\ NoFilesFound)
        => /\ analysis.state = "raised"
           /\ analysis.exc = "ValueError"
           /\ analysis.msg =
                (IF source.kind = "CSVDataSource"
                 THEN "No inflammation data CSV files found in path "
                 ELSE "No inflammation JSON files found in path ") \o source.dir_path
           /\ analysis.calls = <<"load_inflammation_data">>
           /\ analysis.ret = 0
           /\ heap = <<>>

C8_Witness ==
    /\ analysis.state = "raised"
    /\ NoFilesFound
    /\ source.kind = "JSONDataSource"
    /\ analysis.msg = "No inflammation JSON files found in path empty_dir"

====
